---- MODULE Spec2Model ----
(***************************************************************************)
(* A model of pgcrtauth: the crtauth package (Template, Pair, CA, the PEM  *)
(* persistence helpers) and the init / generate commands of the cmd        *)
(* package.                                                                *)
(*                                                                         *)
(* Conventions.                                                            *)
(*  - A Go pointer that may be nil is a record with a field "nil".         *)
(*  - A *big.Int serial number that is nil is the number 0; generated      *)
(*    serial numbers are >= 1.                                             *)
(*  - Values read from crypto/rand (serial numbers, private keys) are      *)
(*    fresh: the n-th pair construction draws the values numbered n.       *)
(*  - A private key is [id, bits, alg]; its public key is the record with  *)
(*    the same id: a public key corresponds to exactly one private key.    *)
(*  - File modes are the numeric values of the Go octal literals.          *)
(*  - A string that the code inspects character by character (the key-size *)
(*    token) is a sequence of one-character strings.                       *)
(***************************************************************************)
EXTENDS Integers, Sequences, FiniteSets, TLC

\* ------------------------------------------------------------------ bounds

\* How many pair constructions (draws from crypto/rand) a behaviour may hold.
MaxGen == 2

\* ------------------------------------------------------- program constants

RootCertFileName == "root.crt"
RootKeyFileName == "root.key"
ServerCertFileName == "server.crt"
ServerKeyFileName == "server.key"

\* genPrivKey: below this many bits the key is an elliptic-curve key.
RSAThreshold == 1024

\* The permission arguments of mkdirAndCreateFile in WriteFiles (0644, 0600)
\* and of the directories (0700).
CertFilePerm == 420
KeyFilePerm == 384
DirPerm == 448

\* NewTemplate's defaults.
DefaultValidForDays == 365
DefaultKeyBits == 256

\* ----------------------------------------------------------------- errors

NoErr == "nil"
Panic == "panic"
ErrInvalidKeySize == "InvalidKeySize"
ErrKeyGenerationFailed == "KeyGenerationFailed"
ErrTemplate == "TemplateError"
ErrIncompleteParent == "IncompleteParent"
ErrSigningFailed == "SigningFailed"
ErrCertificateParseFailed == "CertificateParseFailed"
ErrNotFound == "NotFound"
ErrBlockNotFound == "BlockNotFound"
ErrParse == "ParseError"
ErrIO == "IOError"
ErrPermissionGuardFailed == "PermissionGuardFailed"
ErrUsage == "UsageError"

\* ---------------------------------------------------------------- helpers

\* "x := e; F(x)": the value of F at the value of e.
With(e, F(_)) == CHOOSE y \in {F(x) : x \in {e}} : TRUE

RECURSIVE BitAnd(_, _)
BitAnd(a, b) ==
    IF a = 0 \/ b = 0 THEN 0
    ELSE (IF a % 2 = 1 /\ b % 2 = 1 THEN 1 ELSE 0) + 2 * BitAnd(a \div 2, b \div 2)

\* perm &^ umask over the nine permission bits.
ApplyUmask(perm, mask) == BitAnd(perm, 511 - mask)

\* No group and no other permission bit is set.
OwnerOnly(mode) == mode % 64 = 0

\* ------------------------------------------------- cmd/util.go: key sizes

ValidTokens ==
    { <<"P","2","2","4">>, <<"P","2","5","6">>, <<"P","3","8","4">>, <<"P","5","2","1">>,
      <<"1","0","2","4">>, <<"2","0","4","8">>, <<"3","0","7","2">>, <<"4","0","9","6">> }

isValidKeySize(keySize) == keySize \in ValidTokens

ToUpperChar(c) ==
    CASE c = "p" -> "P"
      [] c = "a" -> "A"
      [] c = "b" -> "B"
      [] c = "c" -> "C"
      [] OTHER -> c

ToUpper(s) == [i \in 1..Len(s) |-> ToUpperChar(s[i])]

HasPrefix(s, c) == Len(s) >= 1 /\ s[1] = c

Digits == {"0","1","2","3","4","5","6","7","8","9"}

DigitVal(c) ==
    CASE c = "0" -> 0 [] c = "1" -> 1 [] c = "2" -> 2 [] c = "3" -> 3 [] c = "4" -> 4
      [] c = "5" -> 5 [] c = "6" -> 6 [] c = "7" -> 7 [] c = "8" -> 8 [] c = "9" -> 9

RECURSIVE AtoiDigits(_)
AtoiDigits(s) ==
    IF s = <<>> THEN 0
    ELSE 10 * AtoiDigits(SubSeq(s, 1, Len(s) - 1)) + DigitVal(s[Len(s)])

\* strconv.Atoi on an unsigned decimal string: [ok, n].
Atoi(s) ==
    IF s # <<>> /\ \A i \in 1..Len(s) : s[i] \in Digits
    THEN [ok |-> TRUE, n |-> AtoiDigits(s)]
    ELSE [ok |-> FALSE, n |-> 0]

parseKeyBits(keySize) ==
    IF ~isValidKeySize(keySize) THEN [err |-> ErrInvalidKeySize, bits |-> 0]
    ELSE LET s == IF HasPrefix(ToUpper(keySize), "P") THEN Tail(keySize) ELSE keySize
             a == Atoi(s)
         IN IF ~a.ok THEN [err |-> ErrInvalidKeySize, bits |-> 0]
            ELSE [err |-> NoErr, bits |-> a.n]

\* ------------------------------------------------------------ data shapes

ZeroName == [Organization |-> <<>>, CommonName |-> ""]

\* A nil private key, and a nil public key.
NilKey == [nil |-> TRUE, id |-> 0, bits |-> 0, alg |-> ""]
NilPub == [nil |-> TRUE, id |-> 0, bits |-> 0, alg |-> ""]

\* The zero time.Time, which is no instant of the program's run.
ZeroTime == <<>>

\* The fields of a certificate that its DER encoding carries. SignedBy is the
\* id of the private key that made the signature (0: no signature).
ZeroDER ==
    [ SerialNumber |-> 0, Subject |-> ZeroName, Issuer |-> ZeroName,
      IsCA |-> FALSE, BasicConstraintsValid |-> FALSE,
      KeyUsage |-> {}, ExtKeyUsage |-> <<>>,
      NotBefore |-> ZeroTime, NotAfter |-> ZeroTime,
      IPAddresses |-> <<>>, DNSNames |-> <<>>,
      PublicKey |-> NilPub, SignedBy |-> 0 ]

\* x509.Certificate{}: the zero value. Raw = ZeroDER is an empty Raw.
ZeroCert ==
    [ nil |-> FALSE,
      SerialNumber |-> 0, Subject |-> ZeroName, Issuer |-> ZeroName,
      IsCA |-> FALSE, BasicConstraintsValid |-> FALSE,
      KeyUsage |-> {}, ExtKeyUsage |-> <<>>,
      NotBefore |-> ZeroTime, NotAfter |-> ZeroTime,
      IPAddresses |-> <<>>, DNSNames |-> <<>>,
      PublicKey |-> NilPub, SignedBy |-> 0,
      Raw |-> ZeroDER ]

NilCert == [ZeroCert EXCEPT !.nil = TRUE]

\* &Pair{} and a nil *Pair.
EmptyPair == [nil |-> FALSE, Cert |-> NilCert, Key |-> NilKey, KeyBits |-> 0]
NilPair == [EmptyPair EXCEPT !.nil = TRUE]

\* ------------------------------------------------- crtauth/template.go

NewTemplate ==
    [ Organization |-> "", CommonName |-> "", HostNames |-> <<>>,
      ValidForDays |-> DefaultValidForDays, KeyBits |-> DefaultKeyBits ]

\* net.ParseIP on the host names the model uses.
IPLiterals == {"10.0.0.1", "::1"}
ParseIP(h) == h \in IPLiterals

\* Integers of a fixed width are sequences of bytes, least significant
\* first, in two's complement. The bytes of the integer n, k of them:
RECURSIVE ToBytes(_, _)
ToBytes(n, k) ==
    IF k = 0 THEN <<>> ELSE <<n % 256>> \o ToBytes(n \div 256, k - 1)

\* b * m + carry for a small m >= 0, in the width of b (Go's wrapping *).
RECURSIVE MulBytes(_, _, _)
MulBytes(b, m, carry) ==
    IF b = <<>> THEN <<>>
    ELSE <<(b[1] * m + carry) % 256>> \o MulBytes(Tail(b), m, (b[1] * m + carry) \div 256)

\* a + b + carry in the width of a (b of the same width).
RECURSIVE AddBytes(_, _, _)
AddBytes(a, b, carry) ==
    IF a = <<>> THEN <<>>
    ELSE <<(a[1] + b[1] + carry) % 256>>
         \o AddBytes(Tail(a), Tail(b), (a[1] + b[1] + carry) \div 256)

\* The sign of a two's complement integer.
IsNegative(b) == b[Len(b)] >= 128
IsPositive(b) == ~IsNegative(b) /\ \E i \in 1..Len(b) : b[i] # 0

\* The same integer in k >= Len(b) bytes.
SignExtend(b, k) ==
    [i \in 1..k |-> IF i <= Len(b) THEN b[i] ELSE IF IsNegative(b) THEN 255 ELSE 0]

\* -b in the width of b.
NegBytes(b) ==
    AddBytes([i \in 1..Len(b) |-> 255 - b[i]], [i \in 1..Len(b) |-> 0], 1)

\* int64 and time.Duration: 8 bytes, a count of nanoseconds.
Int64Width == 8

\* time.Hour = 60 * 60 * 1000 * 1000 * 1000 nanoseconds, as its factors.
HourFactors == <<60, 60, 1000, 1000, 1000>>

RECURSIVE MulAll(_, _)
MulAll(b, factors) ==
    IF factors = <<>> THEN b ELSE MulAll(MulBytes(b, Head(factors), 0), Tail(factors))

\* time.Duration(days) * 24 * time.Hour computed in integers of width bytes.
DurationOfDays(days, width) == MulAll(MulBytes(ToBytes(days, width), 24, 0), HourFactors)

\* daysToDuration: the product in int64, which wraps.
daysToDuration(days) == DurationOfDays(days, Int64Width)

\* Instants are nanoseconds since the program started, in int64. Every
\* behaviour happens within the instant the program started in. (The DER
\* encoding of a certificate keeps whole seconds; no property stated here
\* depends on the part below the second, which the model keeps.)
Now == 0

\* t.Add(d).
TimeAdd(t, d) == AddBytes(t, d, 0)

\* t.After(u), by the sign of t - u taken in one byte more.
TimeAfter(t, u) ==
    IsPositive(AddBytes(SignExtend(t, Int64Width + 1),
                        NegBytes(SignExtend(u, Int64Width + 1)), 0))

\* randSerial: a fresh serial number, or the failure of the random source.
randSerial(gen, ok) ==
    IF ok THEN [err |-> NoErr, n |-> gen] ELSE [err |-> ErrTemplate, n |-> 0]

to509(t, gen, serialOk) ==
    LET serial == randSerial(gen, serialOk)
        isIP(h) == ParseIP(h)
        isDNS(h) == ~ParseIP(h)
    IN IF serial.err # NoErr THEN [err |-> ErrTemplate, cert |-> NilCert]
       ELSE [ err |-> NoErr,
              cert |-> [ ZeroCert EXCEPT
                  !.SerialNumber = serial.n,
                  !.Subject = [Organization |-> <<t.Organization>>,
                               CommonName |-> t.CommonName],
                  !.NotBefore = ToBytes(Now, Int64Width),
                  !.NotAfter = TimeAdd(ToBytes(Now, Int64Width),
                                       daysToDuration(t.ValidForDays)),
                  !.BasicConstraintsValid = TRUE,
                  !.IPAddresses = SelectSeq(t.HostNames, isIP),
                  !.DNSNames = SelectSeq(t.HostNames, isDNS) ] ]

\* ----------------------------------------------------- crtauth/util.go

ECBits == {224, 256, 384, 521}

\* genPrivKey. With bits < 1024 outside the four curves the curve is nil and
\* ecdsa.GenerateKey dereferences it; with bits >= 1024 rsa.GenerateKey takes
\* any size.
genPrivKey(bits, gen, keyOk) ==
    IF bits < RSAThreshold
    THEN IF bits \notin ECBits THEN [err |-> Panic, key |-> NilKey]
         ELSE IF keyOk
              THEN [err |-> NoErr, key |-> [nil |-> FALSE, id |-> gen, bits |-> bits, alg |-> "EC"]]
              ELSE [err |-> ErrKeyGenerationFailed, key |-> NilKey]
    ELSE IF keyOk
         THEN [err |-> NoErr, key |-> [nil |-> FALSE, id |-> gen, bits |-> bits, alg |-> "RSA"]]
         ELSE [err |-> ErrKeyGenerationFailed, key |-> NilKey]

\* publicKey: the public half of an RSA or EC private key, nil otherwise.
publicKey(key) == IF key.nil THEN NilPub ELSE key

\* ----------------------------------------------------- crtauth/pair.go

CAKeyUsage == {"DigitalSignature", "CertSign", "CRLSign"}
ServerKeyUsage == {"KeyEncipherment", "DigitalSignature"}

\* NewPair. A failure of to509 is replaced by an empty certificate, and err is
\* then overwritten by genPrivKey's result.
NewPair(t, gen, serialOk, keyOk) ==
    LET c == to509(t, gen, serialOk)
        cert == IF c.err # NoErr THEN ZeroCert ELSE c.cert
        k == genPrivKey(t.KeyBits, gen, keyOk)
    IN IF k.err # NoErr
       THEN [err |-> k.err, pair |-> NilPair]
       ELSE [err |-> NoErr,
             pair |-> [nil |-> FALSE, Cert |-> cert, Key |-> k.key, KeyBits |-> t.KeyBits]]

NewCAPair(t, gen, serialOk, keyOk) ==
    LET r == NewPair(t, gen, serialOk, keyOk)
    IN IF r.err # NoErr THEN r
       ELSE [r EXCEPT !.pair.Cert.IsCA = TRUE,
                      !.pair.Cert.KeyUsage = @ \cup CAKeyUsage]

NewServerPair(t, gen, serialOk, keyOk) ==
    LET r == NewPair(t, gen, serialOk, keyOk)
    IN IF r.err # NoErr THEN r
       ELSE [r EXCEPT !.pair.Cert.KeyUsage = @ \cup ServerKeyUsage,
                      !.pair.Cert.ExtKeyUsage = Append(@, "ServerAuth")]

\* x509.CreateCertificate(rand, template, parent, pub, priv): the DER bytes.
\* It refuses a template without serial number and a nil public key; signOk
\* is every other failure of the library (random source, key checks).
CreateCertificate(template, parent, pub, priv, signOk) ==
    IF template.SerialNumber = 0 \/ pub.nil \/ priv.nil \/ ~signOk
    THEN [err |-> ErrSigningFailed, der |-> ZeroDER]
    ELSE [ err |-> NoErr,
           der |-> [ SerialNumber |-> template.SerialNumber,
                     Subject |-> template.Subject,
                     Issuer |-> parent.Subject,
                     IsCA |-> template.BasicConstraintsValid /\ template.IsCA,
                     BasicConstraintsValid |-> template.BasicConstraintsValid,
                     KeyUsage |-> template.KeyUsage,
                     ExtKeyUsage |-> template.ExtKeyUsage,
                     NotBefore |-> template.NotBefore,
                     NotAfter |-> template.NotAfter,
                     IPAddresses |-> template.IPAddresses,
                     DNSNames |-> template.DNSNames,
                     PublicKey |-> pub,
                     SignedBy |-> priv.id ] ]

\* x509.ParseCertificate(der).
ParseCertificate(der, parseOk) ==
    IF der = ZeroDER \/ ~parseOk THEN [err |-> ErrParse, cert |-> NilCert]
    ELSE [ err |-> NoErr,
           cert |-> [ nil |-> FALSE,
                      SerialNumber |-> der.SerialNumber,
                      Subject |-> der.Subject, Issuer |-> der.Issuer,
                      IsCA |-> der.IsCA,
                      BasicConstraintsValid |-> der.BasicConstraintsValid,
                      KeyUsage |-> der.KeyUsage, ExtKeyUsage |-> der.ExtKeyUsage,
                      NotBefore |-> der.NotBefore, NotAfter |-> der.NotAfter,
                      IPAddresses |-> der.IPAddresses, DNSNames |-> der.DNSNames,
                      PublicKey |-> der.PublicKey, SignedBy |-> der.SignedBy,
                      Raw |-> der ] ]

\* A SignWith that leaves a self-signed certificate as the template had it.
SelfSignedLeftAsIs(c, self) == c

\* "if p == parent": a Pair that signs itself becomes a CA.
SelfSigned(c, self) ==
    IF self
    THEN [c EXCEPT !.IsCA = TRUE, !.KeyUsage = @ \cup CAKeyUsage]
    ELSE c

\* A SignWith that certifies the signer's key.
SubjectKeyOfParent(p, parent) == publicKey(parent.Key)

\* "pubKey := publicKey(p.Key)": the key the certificate certifies.
SubjectKey(p, parent) == publicKey(p.Key)

\* A SignWith that hands back the certificate and drops the key.
AssignCertDroppingKey(p, cert) == [p EXCEPT !.Cert = cert, !.Key = NilKey]

\* "p.Cert = cert": the signed certificate replaces the template.
AssignCert(p, cert) == [p EXCEPT !.Cert = cert]

\* p.SignWith(parent). self is p == parent (the same Pair instance), and then
\* the writes to p.Cert are writes to parent.Cert. The result is the error
\* and the receiver as the call leaves it.
SignWith(p, parent, self, signOk, parseOk) ==
    IF parent.Cert.nil \/ parent.Key.nil
    THEN [err |-> ErrIncompleteParent, p |-> p]
    ELSE IF p.Cert.nil THEN [err |-> Panic, p |-> p]
    ELSE
      LET c1 == [p.Cert EXCEPT !.Issuer = parent.Cert.Subject]
          c2 == SelfSigned(c1, self)
          p2 == [p EXCEPT !.Cert = c2]
          parentCert == IF self THEN c2 ELSE parent.Cert
          pubKey == SubjectKey(p, parent)
          d == CreateCertificate(c2, parentCert, pubKey, parent.Key, signOk)
          c == ParseCertificate(d.der, parseOk)
      IN IF d.err # NoErr THEN [err |-> ErrSigningFailed, p |-> p2]
         ELSE IF c.err # NoErr THEN [err |-> ErrCertificateParseFailed, p |-> p2]
         ELSE [err |-> NoErr, p |-> AssignCert(p2, c.cert)]

\* ------------------------------------------------------------- file system

\* The CA directory and the output directory of the program, and the four
\* files the program names in them.
CADir == "ca"
OutDir == "out"
Join(dir, name) == <<dir, name>>
Dir(path) == path[1]

Paths ==
    { Join(CADir, RootCertFileName), Join(CADir, RootKeyFileName),
      Join(OutDir, ServerCertFileName), Join(OutDir, ServerKeyFileName) }

NoFile == [exists |-> FALSE, content |-> <<>>, mode |-> 0]

\* The access a new file gets on Windows (inherited from its directory), and
\* the access icacls leaves: full control for the owner alone.
WindowsInheritedMode == 438
WindowsOwnerFullControl == 448

\* --------------------------------------------------------------- PEM

\* pem.Block: a label and the bytes, which are a certificate's DER or a
\* marshalled key.
CertBlockType == "CERTIFICATE"
RSABlockType == "RSA PRIVATE KEY"
ECBlockType == "EC PRIVATE KEY"

pemBlockForCert(cert) == [Type |-> CertBlockType, der |-> cert.Raw, key |-> NilKey]

\* pemBlockForKey: the label names the key's algorithm; any other key is an
\* error.
pemBlockForKey(key) ==
    IF key.nil THEN [err |-> ErrIO, block |-> [Type |-> "", der |-> ZeroDER, key |-> NilKey]]
    ELSE [ err |-> NoErr,
           block |-> [ Type |-> IF key.alg = "RSA" THEN RSABlockType ELSE ECBlockType,
                       der |-> ZeroDER, key |-> key ] ]

\* The length of a block's encoding, in chunks: what carries an RSA key is
\* longer than what carries an EC key.
PEMLen(block) ==
    IF block.key.alg = "RSA" \/ block.der.PublicKey.alg = "RSA" THEN 2 ELSE 1

\* pem.Encode: the chunks of the encoded block. The last chunk holds the END
\* line.
PEMEncode(block) ==
    [i \in 1..PEMLen(block) |-> [blk |-> block, idx |-> i, len |-> PEMLen(block)]]

\* A whole encoded block starts at position i of the data.
BlockAt(data, i) ==
    /\ data[i].idx = 1
    /\ i + data[i].len - 1 <= Len(data)
    /\ \A j \in 1..data[i].len :
          /\ data[i + j - 1].blk = data[i].blk
          /\ data[i + j - 1].idx = j

\* pem.Decode: the first whole block of the data and what follows it.
PEMDecode(data) ==
    LET starts == {i \in 1..Len(data) : BlockAt(data, i)}
    IN IF starts = {} THEN [found |-> FALSE, block |-> pemBlockForCert(ZeroCert), rest |-> <<>>]
       ELSE LET i == CHOOSE k \in starts : \A m \in starts : k <= m
            IN [ found |-> TRUE, block |-> data[i].blk,
                 rest |-> SubSeq(data, i + data[i].len, Len(data)) ]

\* readPEMCert: the first CERTIFICATE block of the stream, parsed.
RECURSIVE readPEMCert(_)
readPEMCert(pemBytes) ==
    LET d == PEMDecode(pemBytes)
    IN IF ~d.found THEN [err |-> ErrBlockNotFound, cert |-> NilCert]
       ELSE IF d.block.Type = CertBlockType THEN ParseCertificate(d.block.der, TRUE)
       ELSE readPEMCert(d.rest)

\* readPEMKey: the first RSA or EC private key block of the stream, parsed.
RECURSIVE readPEMKey(_)
readPEMKey(pemBytes) ==
    LET d == PEMDecode(pemBytes)
    IN IF ~d.found THEN [err |-> ErrBlockNotFound, key |-> NilKey]
       ELSE IF d.block.Type \in {RSABlockType, ECBlockType}
            THEN IF d.block.key.nil THEN [err |-> ErrParse, key |-> NilKey]
                 ELSE [err |-> NoErr, key |-> d.block.key]
       ELSE readPEMKey(d.rest)

\* ------------------------------------------------- files: crtauth/util.go

\* ensureDirExists: MkdirAll when the directory is absent.
ensureDirExists(dirs, dir, mkdirOk) ==
    IF dir \in dirs THEN [err |-> NoErr, dirs |-> dirs]
    ELSE IF mkdirOk THEN [err |-> NoErr, dirs |-> dirs \cup {dir}]
    ELSE [err |-> ErrIO, dirs |-> dirs]

\* An open without O_TRUNC: an existing file keeps what it holds.
OpenFileKeepingContent(fs, name, perm, env, openOk) ==
    IF ~openOk THEN [err |-> ErrIO, fs |-> fs]
    ELSE IF fs[name].exists
         THEN [err |-> NoErr, fs |-> fs]
         ELSE [ err |-> NoErr,
                fs |-> [fs EXCEPT ![name] =
                    [ exists |-> TRUE, content |-> <<>>,
                      mode |-> IF env.goos = "windows" THEN WindowsInheritedMode
                               ELSE ApplyUmask(perm, env.umask) ]] ]

\* os.OpenFile(name, O_RDWR|O_CREATE|O_TRUNC, perm): an existing file is
\* emptied and keeps its mode; a new file gets perm less the umask.
OpenFile(fs, name, perm, env, openOk) ==
    IF ~openOk THEN [err |-> ErrIO, fs |-> fs]
    ELSE IF fs[name].exists
         THEN [err |-> NoErr, fs |-> [fs EXCEPT ![name].content = <<>>]]
         ELSE [ err |-> NoErr,
                fs |-> [fs EXCEPT ![name] =
                    [ exists |-> TRUE, content |-> <<>>,
                      mode |-> IF env.goos = "windows" THEN WindowsInheritedMode
                               ELSE ApplyUmask(perm, env.umask) ]] ]

mkdirAndCreateFile(fs, dirs, name, dirPerm, filePerm, env, mkdirOk, openOk) ==
    LET d == ensureDirExists(dirs, Dir(name), mkdirOk)
    IN IF d.err # NoErr THEN [err |-> ErrIO, fs |-> fs, dirs |-> dirs]
       ELSE LET o == OpenFile(fs, name, filePerm, env, openOk)
            IN [err |-> o.err, fs |-> o.fs, dirs |-> d.dirs]

\* Writing data at the start of an open file. A failed write leaves all but
\* the last chunk of the data.
WriteAtStart(fs, name, data, writeOk) ==
    LET n == IF writeOk THEN Len(data) ELSE Len(data) - 1
        old == fs[name].content
    IN [fs EXCEPT ![name].content = SubSeq(data, 1, n) \o SubSeq(old, n + 1, Len(old))]

\* restrictKeyPermissions: two icacls runs on Windows, nothing elsewhere.
restrictKeyPermissions(fs, keyPath, env, aclOk) ==
    IF env.goos = "windows"
    THEN IF aclOk
         THEN [err |-> NoErr, fs |-> [fs EXCEPT ![keyPath].mode = WindowsOwnerFullControl]]
         ELSE [err |-> ErrPermissionGuardFailed, fs |-> fs]
    ELSE [err |-> NoErr, fs |-> fs]

\* ------------------------------------------- persistence: crtauth/pair.go

\* The steps of an operation at which the environment may fail it. An
\* operation is given at most one.
NoFault == "none"
WriteFaults == {"mkdirCert", "openCert", "writeCert", "mkdirKey", "openKey", "writeKey", "acl"}
PairFaults == {"serial", "keygen"}
SignFaults == {"sign", "parse"}

\* p.WriteCert to the open file name. A nil certificate is dereferenced.
WriteCert(p, fs, name, fault) ==
    IF p.Cert.nil THEN [err |-> Panic, fs |-> fs]
    ELSE LET data == PEMEncode(pemBlockForCert(p.Cert))
         IN IF fault = "writeCert"
            THEN [err |-> ErrIO, fs |-> WriteAtStart(fs, name, data, FALSE)]
            ELSE [err |-> NoErr, fs |-> WriteAtStart(fs, name, data, TRUE)]

\* p.WriteKey to the open file name.
WriteKey(p, fs, name, fault) ==
    LET b == pemBlockForKey(p.Key)
    IN IF b.err # NoErr THEN [err |-> ErrIO, fs |-> fs]
       ELSE LET data == PEMEncode(b.block)
            IN IF fault = "writeKey"
               THEN [err |-> ErrIO, fs |-> WriteAtStart(fs, name, data, FALSE)]
               ELSE [err |-> NoErr, fs |-> WriteAtStart(fs, name, data, TRUE)]

\* p.WriteFiles(certPath, keyPath): [err, fs, dirs]. The pair is only read.
WriteFiles(p, certPath, keyPath, fs, dirs, env, fault) ==
    With(mkdirAndCreateFile(fs, dirs, certPath, DirPerm, CertFilePerm, env,
                            fault # "mkdirCert", fault # "openCert"), LAMBDA c :
    IF c.err # NoErr THEN [err |-> ErrIO, fs |-> c.fs, dirs |-> c.dirs]
    ELSE
    With(WriteCert(p, c.fs, certPath, fault), LAMBDA wc :
    IF wc.err # NoErr THEN [err |-> wc.err, fs |-> wc.fs, dirs |-> c.dirs]
    ELSE
    With(mkdirAndCreateFile(wc.fs, c.dirs, keyPath, DirPerm, KeyFilePerm, env,
                            fault # "mkdirKey", fault # "openKey"), LAMBDA k :
    IF k.err # NoErr THEN [err |-> ErrIO, fs |-> k.fs, dirs |-> k.dirs]
    ELSE
    With(WriteKey(p, k.fs, keyPath, fault), LAMBDA wk :
    IF wk.err # NoErr THEN [err |-> wk.err, fs |-> wk.fs, dirs |-> k.dirs]
    ELSE
    With(restrictKeyPermissions(wk.fs, keyPath, env, fault # "acl"), LAMBDA r :
    [err |-> r.err, fs |-> r.fs, dirs |-> k.dirs])))))

\* p.LoadCert(reader), the reader holding data: [err, p].
LoadCert(p, data) ==
    LET c == readPEMCert(data)
    IN IF c.err # NoErr THEN [err |-> c.err, p |-> p]
       ELSE [err |-> NoErr, p |-> [p EXCEPT !.Cert = c.cert]]

\* A LoadKey that reads the key and leaves the Pair's key as it is.
LoadKeyNotStored(p, data) ==
    LET k == readPEMKey(data)
    IN [err |-> k.err, p |-> p]

\* p.LoadKey(reader), the reader holding data: [err, p].
LoadKey(p, data) ==
    LET k == readPEMKey(data)
    IN IF k.err # NoErr THEN [err |-> k.err, p |-> p]
       ELSE [err |-> NoErr, p |-> [p EXCEPT !.Key = k.key]]

\* p.LoadFiles(certPath, keyPath): [err, p].
LoadFiles(p, certPath, keyPath, fs) ==
    IF ~fs[certPath].exists THEN [err |-> ErrNotFound, p |-> p]
    ELSE
    With(LoadCert(p, fs[certPath].content), LAMBDA c :
    IF c.err # NoErr THEN c
    ELSE IF ~fs[keyPath].exists THEN [err |-> ErrNotFound, p |-> c.p]
    ELSE LoadKey(c.p, fs[keyPath].content))

\* ------------------------------------------------- the CA: crtauth/pair.go

\* New().
CANew == [Pair |-> EmptyPair, CertFileName |-> RootCertFileName, KeyFileName |-> RootKeyFileName]

\* ca.Init(template, dir): [err, stage, ca, pair, fs, dirs]. stage is the step
\* that returned the error; pair is the local pair as the call leaves it.
CAInit(ca, template, dir, gen, fs, dirs, env, fault) ==
    With(NewCAPair(template, gen, fault # "serial", fault # "keygen"), LAMBDA n :
    IF n.err # NoErr
    THEN [err |-> n.err, stage |-> "create", ca |-> ca, pair |-> NilPair,
          fs |-> fs, dirs |-> dirs]
    ELSE IF fault = "mkdir"
    THEN [err |-> ErrIO, stage |-> "mkdir", ca |-> ca, pair |-> n.pair,
          fs |-> fs, dirs |-> dirs]
    ELSE
    With(SignWith(n.pair, n.pair, TRUE, fault # "sign", fault # "parse"), LAMBDA sg :
    IF sg.err # NoErr
    THEN [err |-> sg.err, stage |-> "sign", ca |-> ca, pair |-> sg.p,
          fs |-> fs, dirs |-> dirs \cup {dir}]
    ELSE
    With(WriteFiles(sg.p, Join(dir, ca.CertFileName), Join(dir, ca.KeyFileName),
                    fs, dirs \cup {dir}, env, fault), LAMBDA w :
    IF w.err # NoErr
    THEN [err |-> w.err, stage |-> "write", ca |-> ca, pair |-> sg.p,
          fs |-> w.fs, dirs |-> w.dirs]
    ELSE [err |-> NoErr, stage |-> "done", ca |-> [ca EXCEPT !.Pair = sg.p],
          pair |-> sg.p, fs |-> w.fs, dirs |-> w.dirs])))

\* ca.Load(dir): [err, ca].
CALoad(ca, dir, fs) ==
    With(LoadFiles(ca.Pair, Join(dir, ca.CertFileName), Join(dir, ca.KeyFileName), fs),
         LAMBDA l : [err |-> l.err, ca |-> [ca EXCEPT !.Pair = l.p]])

\* ------------------------------------------------------ the cmd package

\* Flag defaults registered in the two init() functions.
DefaultKeySize == <<"P","2","5","6">>

initFlagsDefault ==
    [ organization |-> "", commonName |-> "", validForDays |-> DefaultValidForDays,
      keySize |-> DefaultKeySize, caDir |-> "" ]

serverFlagsDefault ==
    [ host |-> <<>>, organization |-> "", commonName |-> "",
      validForDays |-> DefaultValidForDays, keySize |-> DefaultKeySize,
      outDir |-> "", caDir |-> "" ]

\* strings.Split(s, ","), s given as its comma-separated fields: the empty
\* string splits into one empty field.
Split(fields) == IF fields = <<>> THEN <<"">> ELSE fields

\* The Template the commands fill in from their flags.
TemplateOf(organization, commonName, hostNames, validForDays, keyBits) ==
    [NewTemplate EXCEPT !.Organization = organization, !.CommonName = commonName,
                        !.HostNames = hostNames, !.ValidForDays = validForDays,
                        !.KeyBits = keyBits]

\* initCmd.Run with the flag variables as parsed: [err, stage, pair, bits, fs,
\* dirs]. An error is exit status 1.
initCmdRun(in, gen, fs, dirs, env, fault) ==
    With(parseKeyBits(in.keySize), LAMBDA k :
    IF k.err # NoErr
    THEN [err |-> k.err, stage |-> "keysize", pair |-> NilPair, bits |-> 0,
          fs |-> fs, dirs |-> dirs]
    ELSE
    With(CAInit(CANew,
                TemplateOf(in.organization, in.commonName, <<>>, in.validForDays, k.bits),
                in.caDir, gen, fs, dirs, env, fault), LAMBDA r :
    [err |-> r.err, stage |-> r.stage, pair |-> r.pair, bits |-> k.bits,
     fs |-> r.fs, dirs |-> r.dirs]))

\* genCmd.Run with the flag variables as parsed. The key size is read from the
\* init command's flag variable.
genCmdRun(in, server, selfSigned, gen, fs, dirs, env, fault) ==
    IF server.caDir = "" /\ ~selfSigned
    THEN [err |-> ErrUsage, stage |-> "usage", pair |-> NilPair, bits |-> 0,
          fs |-> fs, dirs |-> dirs]
    ELSE
    With(parseKeyBits(in.keySize), LAMBDA k :
    IF k.err # NoErr
    THEN [err |-> k.err, stage |-> "keysize", pair |-> NilPair, bits |-> 0,
          fs |-> fs, dirs |-> dirs]
    ELSE
    With(NewServerPair(TemplateOf(server.organization, server.commonName,
                                  Split(server.host), server.validForDays, k.bits),
                       gen, fault # "serial", fault # "keygen"), LAMBDA n :
    IF n.err # NoErr
    THEN [err |-> n.err, stage |-> "create", pair |-> NilPair, bits |-> k.bits,
          fs |-> fs, dirs |-> dirs]
    ELSE
    With(IF selfSigned THEN [err |-> NoErr, ca |-> CANew]
         ELSE CALoad(CANew, server.caDir, fs), LAMBDA l :
    IF l.err # NoErr
    THEN [err |-> l.err, stage |-> "load", pair |-> n.pair, bits |-> k.bits,
          fs |-> fs, dirs |-> dirs]
    ELSE
    With(IF selfSigned
         THEN SignWith(n.pair, n.pair, TRUE, fault # "sign", fault # "parse")
         ELSE SignWith(n.pair, l.ca.Pair, FALSE, fault # "sign", fault # "parse"),
         LAMBDA sg :
    IF sg.err # NoErr
    THEN [err |-> sg.err, stage |-> "sign", pair |-> sg.p, bits |-> k.bits,
          fs |-> fs, dirs |-> dirs]
    ELSE
    With(WriteFiles(sg.p, Join(server.outDir, ServerCertFileName),
                    Join(server.outDir, ServerKeyFileName), fs, dirs, env, fault),
         LAMBDA w :
    [err |-> w.err, stage |-> IF w.err = NoErr THEN "done" ELSE "write",
     pair |-> sg.p, bits |-> k.bits, fs |-> w.fs, dirs |-> w.dirs])))))

\* ------------------------------------------------------------------ state

VARIABLES
    env,    \* the platform: [goos, umask]
    fs,     \* the files: path -> [exists, content, mode]
    dirs,   \* the directories that exist
    gen,    \* how many pair constructions have drawn from crypto/rand
    pair,   \* the calling program's Pair variable (nil until it constructs one)
    ca,     \* the calling program's CA
    ret     \* the last operation: its arguments and what it returned

vars == <<env, fs, dirs, gen, pair, ca, ret>>

\* A reference to a Pair: 0 is ca.Pair, 1 is the program's own variable.
Held == IF pair.nil THEN {} ELSE {1}
Deref(r) == IF r = 0 THEN ca.Pair ELSE pair

CertPaths == {Join(CADir, RootCertFileName), Join(OutDir, ServerCertFileName)}
KeyPaths == {Join(CADir, RootKeyFileName), Join(OutDir, ServerKeyFileName)}

\* The inputs the operations are given.
LibKeyBits == {256, 2048}
AllKeyBits == {224, 256, 384, 521, 1024, 2048, 3072, 4096, 0, 512, 1025, 8192}
Templates(cn, bits) == {[NewTemplate EXCEPT !.CommonName = cn, !.KeyBits = kb] : kb \in bits}
Tokens ==
    ValidTokens \cup
    { <<"P","5","1","2">>, <<"a","b","c">>, <<>>, <<"p","2","5","6">>, <<"8","1","9","2">> }
HostList == <<"10.0.0.1", "db.internal">>

\* Values of --valid-for, which is parsed as an int: the default, a day, no
\* day, a day back, and two values whose nanoseconds do not fit int64.
ValidForInputs == {DefaultValidForDays, 1, 0, -1, 106752, 213504}

\* The record of an operation: op and err; fault, the step the environment
\* failed; stage, the step of a composite operation that returned the error;
\* recv and parent, the references it was given (-1: none); pair, the Pair it
\* constructed, as the call left it; the key-size token and the key bits it
\* was given; the paths it was given; days, the ValidForDays it was given;
\* again, whether the operation before it
\* was the same operation on the same references and returned no error.
Ret(op, err, fault) ==
    [ op |-> op, err |-> err, fault |-> fault, stage |-> "", recv |-> -1, parent |-> -1,
      pair |-> NilPair, token |-> <<>>, bits |-> 0,
      certPath |-> <<>>, keyPath |-> <<>>, again |-> FALSE,
      days |-> DefaultValidForDays ]

Again(op, recv, parent) ==
    ret.op = op /\ ret.err = NoErr /\ ret.recv = recv /\ ret.parent = parent

\* The state after the program starts and makes its CA with New(), on one of
\* the platforms, with the key files of the set pre left there beforehand,
\* readable by everyone.
InitOn(platforms, pres) ==
    /\ env \in [goos : platforms, umask : {18}]
    /\ \E pre \in pres :
          /\ fs = [p \in Paths |->
                     IF p \in pre
                     THEN [exists |-> TRUE, content |-> <<>>, mode |-> CertFilePerm]
                     ELSE NoFile]
          /\ dirs = {Dir(p) : p \in pre}
    /\ gen = 0
    /\ pair = NilPair
    /\ ca = CANew
    /\ ret = Ret("start", NoErr, NoFault)

Init == InitOn({"linux", "windows"}, {{}, KeyPaths})

\* A Linux host with no file of the program's yet.
InitPlain == InitOn({"linux"}, {{}})

\* ---------------------------------------------------------------- actions

\* The calling program assigns the result of a New...Pair call to its
\* variable: "pair, err = New...Pair(t)". A panic unwinds the call before the
\* assignment.
Construct(op, r, t, fault) ==
    /\ gen < MaxGen
    /\ pair' = IF r.err = Panic THEN pair ELSE r.pair
    /\ ret' = [Ret(op, r.err, fault) EXCEPT
                 !.again = Again(op, 1, -1), !.recv = 1, !.pair = r.pair, !.bits = t.KeyBits,
                 !.days = t.ValidForDays]
    /\ gen' = gen + 1
    /\ UNCHANGED <<env, fs, dirs, ca>>

DoNewPair(bits, faults) ==
    \E t \in Templates("srv", bits), fault \in faults :
        \E r \in {NewPair(t, gen + 1, fault # "serial", fault # "keygen")} :
            Construct("NewPair", r, t, fault)

DoNewCAPair(bits, faults) ==
    \E t \in Templates("ca", bits), fault \in faults :
        \E r \in {NewCAPair(t, gen + 1, fault # "serial", fault # "keygen")} :
            Construct("NewCAPair", r, t, fault)

DoNewServerPair(bits, faults) ==
    \E t \in Templates("srv", bits), fault \in faults :
        \E r \in {NewServerPair(t, gen + 1, fault # "serial", fault # "keygen")} :
            Construct("NewServerPair", r, t, fault)

\* Storing what an operation left in the Pair that r refers to.
Store(r, p) ==
    IF r = 0
    THEN /\ ca' = [ca EXCEPT !.Pair = p]
         /\ pair' = pair
    ELSE /\ pair' = p
         /\ ca' = ca

DoSignWith(faults) ==
    \E r \in Held \cup {0}, q \in Held \cup {0}, fault \in faults :
        \E sg \in {SignWith(Deref(r), Deref(q), r = q, fault # "sign", fault # "parse")} :
           /\ Store(r, sg.p)
           /\ ret' = [Ret("SignWith", sg.err, fault) EXCEPT
                        !.again = Again("SignWith", r, q), !.recv = r, !.parent = q]
           /\ UNCHANGED <<env, fs, dirs, gen>>

\* LoadCert and LoadKey on a reader over one of the files.
DoLoadCert ==
    \E r \in Held \cup {0}, path \in Paths :
        /\ fs[path].exists
        /\ \E l \in {LoadCert(Deref(r), fs[path].content)} :
              /\ Store(r, l.p)
              /\ ret' = [Ret("LoadCert", l.err, NoFault) EXCEPT
                           !.again = Again("LoadCert", r, -1), !.recv = r, !.certPath = path]
        /\ UNCHANGED <<env, fs, dirs, gen>>

DoLoadKey ==
    \E r \in Held \cup {0}, path \in Paths :
        /\ fs[path].exists
        /\ \E l \in {LoadKey(Deref(r), fs[path].content)} :
              /\ Store(r, l.p)
              /\ ret' = [Ret("LoadKey", l.err, NoFault) EXCEPT
                           !.again = Again("LoadKey", r, -1), !.recv = r, !.keyPath = path]
        /\ UNCHANGED <<env, fs, dirs, gen>>

\* The two pairs of paths the program uses.
PathPairs ==
    { <<Join(CADir, RootCertFileName), Join(CADir, RootKeyFileName)>>,
      <<Join(OutDir, ServerCertFileName), Join(OutDir, ServerKeyFileName)>> }

DoLoadFiles ==
    \E r \in Held \cup {0}, pp \in PathPairs :
        \E l \in {LoadFiles(Deref(r), pp[1], pp[2], fs)} :
           /\ Store(r, l.p)
           /\ ret' = [Ret("LoadFiles", l.err, NoFault) EXCEPT !.again = Again("LoadFiles", r, -1),
                        !.recv = r, !.certPath = pp[1], !.keyPath = pp[2]]
           /\ UNCHANGED <<env, fs, dirs, gen>>

\* "p := &Pair{}; err := p.LoadFiles(certPath, keyPath)": the program loads
\* the files into a fresh Pair, which its variable refers to from then on.
DoLoadFilesFresh ==
    \E pp \in PathPairs :
        \E l \in {LoadFiles(EmptyPair, pp[1], pp[2], fs)} :
           /\ pair' = l.p
           /\ ret' = [Ret("LoadFilesFresh", l.err, NoFault) EXCEPT
                        !.again = Again("LoadFilesFresh", 1, -1),
                        !.recv = 1, !.certPath = pp[1], !.keyPath = pp[2]]
           /\ UNCHANGED <<env, fs, dirs, gen, ca>>

DoWriteFiles(faults) ==
    \E r \in Held \cup {0}, pp \in PathPairs, fault \in faults :
        \E w \in {WriteFiles(Deref(r), pp[1], pp[2], fs, dirs, env, fault)} :
           /\ fs' = w.fs
           /\ dirs' = w.dirs
           /\ ret' = [Ret("WriteFiles", w.err, fault) EXCEPT !.again = Again("WriteFiles", r, -1),
                        !.recv = r, !.certPath = pp[1], !.keyPath = pp[2]]
           /\ UNCHANGED <<env, gen, pair, ca>>

CAInitFaults == PairFaults \cup {"mkdir"} \cup SignFaults \cup WriteFaults \cup {NoFault}

DoCAInit(bits, faults) ==
    \E t \in Templates("ca", bits), fault \in faults :
        /\ gen < MaxGen
        /\ \E r \in {CAInit(ca, t, CADir, gen + 1, fs, dirs, env, fault)} :
              /\ ca' = r.ca
              /\ fs' = r.fs
              /\ dirs' = r.dirs
              /\ ret' = [Ret("CA.Init", r.err, fault) EXCEPT !.again = Again("CA.Init", 0, -1),
                           !.stage = r.stage, !.recv = 0, !.pair = r.pair,
                           !.bits = t.KeyBits,
                           !.certPath = Join(CADir, ca.CertFileName),
                           !.keyPath = Join(CADir, ca.KeyFileName)]
        /\ gen' = gen + 1
        /\ UNCHANGED <<env, pair>>

DoCALoad ==
    \E l \in {CALoad(ca, CADir, fs)} :
       /\ ca' = l.ca
       /\ ret' = [Ret("CA.Load", l.err, NoFault) EXCEPT !.again = Again("CA.Load", 0, -1),
                    !.recv = 0,
                    !.certPath = Join(CADir, ca.CertFileName),
                    !.keyPath = Join(CADir, ca.KeyFileName)]
       /\ UNCHANGED <<env, fs, dirs, gen, pair>>

\* The calling program: any sequence of the package's operations, on one
\* key size, failing at the steps that leave a Pair or a file half done.
Next ==
    \/ DoNewPair({256}, {NoFault, "serial"})
    \/ DoNewCAPair({256}, {NoFault})
    \/ DoNewServerPair({256}, {NoFault})
    \/ DoSignWith({NoFault, "sign", "parse"})
    \/ DoLoadCert
    \/ DoLoadKey
    \/ DoLoadFiles
    \/ DoCAInit({256}, {NoFault})
    \/ DoCALoad

Spec == InitPlain /\ [][Next]_vars

\* The constructors alone, on every key size and every failure.
NextNew ==
    \/ DoNewPair(AllKeyBits, PairFaults \cup {NoFault})
    \/ DoNewCAPair(AllKeyBits, PairFaults \cup {NoFault})
    \/ DoNewServerPair(AllKeyBits, PairFaults \cup {NoFault})

SpecNew == Init /\ [][NextNew]_vars

\* The CA and its files: Init and Load in any order, failing at any step,
\* and the CA's Pair written again.
NextCA ==
    \/ DoCAInit(LibKeyBits, CAInitFaults)
    \/ DoCALoad
    \/ DoWriteFiles({NoFault})

SpecCA == Init /\ [][NextCA]_vars

\* CA.Init alone, called again and again on the one directory, failing at
\* any step.
NextInit ==
    DoCAInit(LibKeyBits, CAInitFaults)

SpecInit == Init /\ [][NextInit]_vars

\* Writing and reading back: CA.Init, whose write of the key may break off, Pairs
\* written to either pair of paths, and the files loaded into the CA's Pair
\* and into fresh Pairs.
NextFiles ==
    \/ DoCAInit(LibKeyBits, {NoFault, "writeKey"})
    \/ DoWriteFiles({NoFault})
    \/ DoLoadFilesFresh
    \/ DoCALoad

\* A Linux host, with or without key files left there beforehand.
InitFiles == InitOn({"linux"}, {{}, KeyPaths})

SpecFiles == InitFiles /\ [][NextFiles]_vars

\* One run of "pgcrtauth init --ca-dir ca --key-size tok": a process of its
\* own, whose flag variables start at their defaults.
InitCmd ==
    \E tok \in Tokens, fault \in CAInitFaults, days \in ValidForInputs :
        /\ gen < MaxGen
        /\ fault = NoFault \/ tok = DefaultKeySize
        /\ days = DefaultValidForDays \/ (fault = NoFault /\ tok = DefaultKeySize)
        /\ LET in == [initFlagsDefault EXCEPT !.keySize = tok, !.caDir = CADir,
                                              !.commonName = "ca",
                                              !.validForDays = days]
           IN \E r \in {initCmdRun(in, gen + 1, fs, dirs, env, fault)} :
              /\ fs' = r.fs
              /\ dirs' = r.dirs
              /\ ret' = [Ret("init", r.err, fault) EXCEPT !.again = Again("init", -1, -1),
                           !.stage = r.stage, !.pair = r.pair, !.token = tok,
                           !.days = days,
                           !.bits = r.bits,
                           !.certPath = Join(CADir, RootCertFileName),
                           !.keyPath = Join(CADir, RootKeyFileName)]
        /\ gen' = gen + 1
        /\ UNCHANGED <<env, pair, ca>>

GenCmdFaults == PairFaults \cup SignFaults \cup WriteFaults \cup {NoFault}

\* One run of "pgcrtauth generate -H ... -o out --key-size tok" with
\* --self-signed, --ca-dir ca, both or neither.
GenCmd ==
    \E tok \in Tokens, selfSigned \in BOOLEAN, caDir \in {"", CADir},
       fault \in GenCmdFaults, days \in ValidForInputs :
        /\ gen < MaxGen
        /\ fault = NoFault \/ tok = DefaultKeySize
        /\ days = DefaultValidForDays \/ (fault = NoFault /\ tok = DefaultKeySize)
        /\ ~(selfSigned /\ caDir # "")
        /\ LET server == [serverFlagsDefault EXCEPT
                              !.host = HostList, !.commonName = "srv",
                              !.validForDays = days,
                              !.keySize = tok, !.outDir = OutDir, !.caDir = caDir]
           IN \E r \in {genCmdRun(initFlagsDefault, server, selfSigned, gen + 1,
                                  fs, dirs, env, fault)} :
              /\ fs' = r.fs
              /\ dirs' = r.dirs
              /\ ret' = [Ret("generate", r.err, fault) EXCEPT !.again = Again("generate", -1, -1),
                           !.stage = r.stage, !.pair = r.pair, !.token = tok,
                           !.days = days,
                           !.bits = r.bits,
                           !.certPath = Join(OutDir, ServerCertFileName),
                           !.keyPath = Join(OutDir, ServerKeyFileName)]
        /\ gen' = gen + 1
        /\ UNCHANGED <<env, pair, ca>>

\* The command line: any sequence of runs of the two commands.
NextCmd ==
    \/ InitCmd
    \/ GenCmd

SpecCmd == Init /\ [][NextCmd]_vars

\* ------------------------------------------------------------- properties

RootCert == Join(CADir, RootCertFileName)
RootKey == Join(CADir, RootKeyFileName)

\* The file at path holds a certificate that readPEMCert accepts.
HoldsValidCert(path) ==
    fs[path].exists /\ readPEMCert(fs[path].content).err = NoErr

\* C1: CA.Load on a directory that holds a valid root.crt and no root.key
\* returns the not-found error and leaves the CA's Pair as it was before the
\* call, Cert and Key alike.
C1_LoadWithoutKeyLeavesPair ==
    [][ (DoCALoad /\ HoldsValidCert(RootCert) /\ ~fs[RootKey].exists)
        => (ret'.err = ErrNotFound /\ ca'.Pair = ca.Pair) ]_vars

\* C2: after every successful WriteFiles, and so after every successful
\* CA.Init, init or generate, the key file is accessible to its owner alone,
\* whatever was at its path before.
C2_KeyFileOwnerOnly ==
    (ret.op \in {"WriteFiles", "CA.Init", "init", "generate"} /\ ret.err = NoErr)
        => OwnerOnly(fs[ret.keyPath].mode)

\* The Pair is a self-signed CA: its certificate names itself as issuer, is
\* marked as a CA, certifies the Pair's own key and was signed with it.
SelfSignedCA(p) ==
    /\ ~p.nil /\ ~p.Cert.nil /\ ~p.Key.nil
    /\ p.Cert.Raw # ZeroDER
    /\ p.Cert.IsCA
    /\ "CertSign" \in p.Cert.KeyUsage
    /\ p.Cert.Issuer = p.Cert.Subject
    /\ p.Cert.PublicKey = publicKey(p.Key)
    /\ p.Cert.SignedBy = p.Key.id

\* C3: a successful CA.Init that follows a successful CA.Init on the same
\* directory makes a self-signed CA pair with another serial number and
\* another key than the first, and leaves in root.crt and root.key the
\* encoding of the second pair's certificate and key and nothing else.
C3_SecondInitReplacesFirst ==
    [][ (ret'.op = "CA.Init" /\ ret'.err = NoErr /\ ret'.again)
        => /\ SelfSignedCA(ca.Pair) /\ SelfSignedCA(ca'.Pair)
           /\ ca'.Pair.Cert.SerialNumber # ca.Pair.Cert.SerialNumber
           /\ ca'.Pair.Key.id # ca.Pair.Key.id
           /\ fs'[RootCert].content = PEMEncode(pemBlockForCert(ca'.Pair.Cert))
           /\ fs'[RootKey].content = PEMEncode(pemBlockForKey(ca'.Pair.Key).block) ]_vars

\* Two successful CA.Init calls in succession have happened, the second with
\* an elliptic-curve key, whose encoding is the shorter one.
C3_Witness ==
    /\ ret.op = "CA.Init" /\ ret.err = NoErr /\ ret.again
    /\ ca.Pair.Key.alg = "EC"
    /\ gen = 2

\* The key sizes the package documents as supported.
SupportedKeyBits == {224, 256, 384, 521, 1024, 2048, 3072, 4096}

\* C4: a constructor given a Template.KeyBits outside the supported sizes
\* returns the invalid-key-size error and generates no key.
C4_NoKeyOutsideSupportedSizes ==
    (ret.op \in {"NewPair", "NewCAPair", "NewServerPair"} /\ ret.bits \notin SupportedKeyBits)
        => (ret.err = ErrInvalidKeySize /\ ret.pair.Key.nil)

\* C5: the key of the pair a successful generate made has the size and the
\* algorithm that the token of generate's own --key-size names: a curve for a
\* P-token, RSA for a number.
C5_GenerateKeyFollowsOwnFlag ==
    (ret.op = "generate" /\ ret.err = NoErr /\ isValidKeySize(ret.token))
        => /\ ret.pair.Key.bits = parseKeyBits(ret.token).bits
           /\ ret.pair.Key.alg = IF HasPrefix(ToUpper(ret.token), "P") THEN "EC" ELSE "RSA"

\* C6: after a successful SignWith(pair, pair) the pair's certificate is
\* marked as a CA, carries the certificate-signing key usage and names its
\* own subject as issuer; a repeated self-sign is such a call too.
C6_SelfSignMakesCA ==
    (ret.op = "SignWith" /\ ret.err = NoErr /\ ret.recv = ret.parent)
        => /\ Deref(ret.recv).Cert.IsCA
           /\ "CertSign" \in Deref(ret.recv).Cert.KeyUsage
           /\ Deref(ret.recv).Cert.Issuer = Deref(ret.recv).Cert.Subject

\* A Pair made by NewServerPair, which is no CA as constructed, has signed
\* itself twice in succession.
C6_Witness ==
    /\ ret.op = "SignWith" /\ ret.err = NoErr /\ ret.recv = 1 /\ ret.parent = 1
    /\ ret.again
    /\ pair.Cert.ExtKeyUsage = <<"ServerAuth">>
    /\ pair.Cert.IsCA

\* The Pair that r refers to after the step.
DerefNext(r) == IF r = 0 THEN ca'.Pair ELSE pair'

\* C7: a successful SignWith(leaf, ca), with ca another Pair that is a
\* self-signed CA, gives the leaf a signed certificate whose issuer is the
\* CA's subject, whose public key is that of the leaf's own private key and
\* whose signature the CA's private key made; the call does not change
\* whether the leaf is marked as a CA.
C7_LeafSignedByCA ==
    [][ \A r \in {0, 1}, q \in {0, 1} :
          ( /\ ret'.op = "SignWith" /\ ret'.err = NoErr
            /\ ret'.recv = r /\ ret'.parent = q /\ r # q
            /\ SelfSignedCA(Deref(q)) )
          => /\ DerefNext(r).Cert.Raw # ZeroDER
             /\ DerefNext(r).Cert.Issuer = Deref(q).Cert.Subject
             /\ DerefNext(r).Cert.PublicKey = publicKey(Deref(r).Key)
             /\ DerefNext(r).Cert.SignedBy = Deref(q).Key.id
             /\ DerefNext(r).Cert.IsCA = Deref(r).Cert.IsCA ]_vars

\* The program's Pair, which has a key of its own and is no CA, has just
\* been signed by the CA's self-signed Pair.
C7_Witness ==
    /\ ret.op = "SignWith" /\ ret.err = NoErr /\ ret.recv = 1 /\ ret.parent = 0
    /\ SelfSignedCA(ca.Pair)
    /\ pair.Key.id # ca.Pair.Key.id
    /\ pair.Cert.SignedBy = ca.Pair.Key.id
    /\ ~pair.Cert.IsCA

\* A Pair that holds a signed certificate and a key holds the certificate of
\* that key.
Corresponds(p) ==
    (~p.nil /\ ~p.Cert.nil /\ p.Cert.Raw # ZeroDER /\ ~p.Key.nil)
        => p.Cert.PublicKey = publicKey(p.Key)

\* The operations that work on a Pair in place.
InPlaceOps == {"SignWith", "LoadCert", "LoadKey", "LoadFiles", "CA.Load"}

\* C8 as stated: after every operation every Pair that holds a signed
\* certificate and a key holds the certificate of that key, and no operation
\* on a Pair replaces a key the Pair already holds.
C8_KeyAlwaysCorresponds ==
    [][ /\ \A r \in {0, 1} : Corresponds(DerefNext(r))
        /\ ret'.op \in InPlaceOps
             => \A r \in {0, 1} : ~Deref(r).Key.nil => DerefNext(r).Key = Deref(r).Key ]_vars

\* C8, amended: SignWith never changes the receiver's key, and after a
\* successful SignWith the receiver holds a signed certificate of its own
\* key, whatever certificate and key it held before.
C8_SignWithCertifiesOwnKey ==
    [][ \A r \in {0, 1} :
          (ret'.op = "SignWith" /\ ret'.recv = r)
          => /\ DerefNext(r).Key = Deref(r).Key
             /\ ret'.err = NoErr
                  => /\ DerefNext(r).Cert.Raw # ZeroDER
                     /\ Corresponds(DerefNext(r)) ]_vars

\* A Pair whose certificate was loaded from another pair's file (its serial
\* number is not of the generation of its key) has been signed.
C8_Witness ==
    /\ ret.op = "SignWith" /\ ret.err = NoErr
    /\ ~Deref(ret.recv).Key.nil
    /\ Deref(ret.recv).Cert.SerialNumber # Deref(ret.recv).Key.id
    /\ Deref(ret.recv).Cert.PublicKey = publicKey(Deref(ret.recv).Key)

\* C9: a constructor whose serial-number generation or key generation fails
\* returns an error and no Pair.
C9_FailedStepGivesNoPair ==
    ( /\ ret.op \in {"NewPair", "NewCAPair", "NewServerPair"}
      /\ ret.fault \in PairFaults
      /\ ret.bits \in SupportedKeyBits )
        => (ret.err # NoErr /\ ret.pair.nil)

\* C10: when CA.Init has signed its pair and the write of the files fails,
\* the signed pair is the CA's Pair.
C10_SignedPairKeptOnWriteFailure ==
    (ret.op = "CA.Init" /\ ret.stage = "write" /\ ret.err # NoErr)
        => (SelfSignedCA(ret.pair) /\ ca.Pair = ret.pair)

\* C11: the certificate of every pair the init and generate commands build
\* from their Template, whatever --valid-for was given, has a not-after
\* later than its not-before, and its not-after is its not-before plus
\* ValidForDays times 24 hours.
C11_NotAfterLaterThanNotBefore ==
    ( /\ ret.op \in {"init", "generate"}
      /\ ~ret.pair.nil /\ ~ret.pair.Cert.nil
      /\ ret.pair.Cert.SerialNumber # 0 )
        => /\ TimeAfter(ret.pair.Cert.NotAfter, ret.pair.Cert.NotBefore)
           /\ SignExtend(ret.pair.Cert.NotAfter, Int64Width + 4)
                = AddBytes(SignExtend(ret.pair.Cert.NotBefore, Int64Width + 4),
                           DurationOfDays(ret.days, Int64Width + 4), 0)

\* The certificate and the key of l are those of w: the same serial number,
\* subject and validity bounds, and an equal key.
SameCertAndKey(l, w) ==
    /\ l.Cert.SerialNumber = w.Cert.SerialNumber
    /\ l.Cert.Subject = w.Cert.Subject
    /\ l.Cert.NotBefore = w.Cert.NotBefore
    /\ l.Cert.NotAfter = w.Cert.NotAfter
    /\ l.Key = w.Key

\* The last operation wrote the signed Pair that ret.recv refers to.
WroteSigned ==
    /\ ret.op \in {"WriteFiles", "CA.Init"} /\ ret.err = NoErr
    /\ Deref(ret.recv).Cert.Raw # ZeroDER

\* C12: when a successful WriteFiles (also as the last step of CA.Init) of a
\* signed Pair is followed by LoadFiles of the same two paths into a fresh
\* Pair, or by CA.Load of the directory, the load succeeds and the Pair it
\* fills has the written Pair's certificate (serial number, subject,
\* validity bounds) and key.
C12_WriteThenLoad ==
    [][ ( /\ WroteSigned
          /\ ret'.op \in {"LoadFilesFresh", "CA.Load"}
          /\ ret'.certPath = ret.certPath /\ ret'.keyPath = ret.keyPath )
        => /\ ret'.err = NoErr
           /\ SameCertAndKey(DerefNext(ret'.recv), Deref(ret.recv)) ]_vars

\* A fresh Pair has been loaded from server.crt and server.key, and holds a
\* signed certificate and an RSA key.
C12_Witness ==
    /\ ret.op = "LoadFilesFresh" /\ ret.err = NoErr
    /\ ret.certPath = Join(OutDir, ServerCertFileName)
    /\ pair.Cert.Raw # ZeroDER
    /\ pair.Key.alg = "RSA"
    /\ pair.KeyBits = 0

\* C13: a SignWith that returns an error (or does not return) leaves the
\* receiver as it was: certificate, with its issuer, CA mark and key usages,
\* and key.
C13_FailedSignLeavesReceiver ==
    [][ \A r \in {0, 1} :
          (ret'.op = "SignWith" /\ ret'.recv = r /\ ret'.err # NoErr)
          => DerefNext(r) = Deref(r) ]_vars

\* The file at path holds something.
HasContent(path) == fs[path].exists /\ fs[path].content # <<>>

\* C14: whenever root.crt and root.key both hold something, and that is a
\* certificate and a private key (a file that a broken-off write left
\* incomplete is set aside), they are the certificate and the key of one
\* Pair: the certificate is that of the key, never the certificate of one
\* generation next to the key of another.
C14_RootFilesOfOnePair ==
    ( /\ HasContent(RootCert) /\ HasContent(RootKey)
      /\ readPEMCert(fs[RootCert].content).err = NoErr
      /\ readPEMKey(fs[RootKey].content).err = NoErr )
        => readPEMCert(fs[RootCert].content).cert.PublicKey
             = publicKey(readPEMKey(fs[RootKey].content).key)

====
